---------------------------- MODULE Spec2Model ----------------------------
(***************************************************************************)
(* Process-lifecycle and job-control model of SimpleShell (src/main.cpp). *)
(*                                                                         *)
(* The shell is one process with two control contexts: the main loop      *)
(* (main, execute, killBgProcs) and the SIGCHLD handler child_handler,    *)
(* which preempts the main loop.  The program is built for Mac OS X, so   *)
(* signal() has BSD semantics: the disposition stays installed, SIGCHLD   *)
(* is blocked while child_handler runs, one pending SIGCHLD is remembered *)
(* (no queue), and interrupted system calls are restarted.                *)
(*                                                                         *)
(* A pending SIGCHLD is delivered at the latest when the main loop enters *)
(* or leaves the kernel: steps that are system calls need no SIGCHLD      *)
(* pending, steps that stay in user mode may run before the delivery.     *)
(***************************************************************************)
EXTENDS Integers, Sequences, FiniteSets, TLC

\* Bounds of the model.
MaxPid == 3          \* process ids the kernel hands out are 1..MaxPid
MaxJobs == 2         \* background launches are accepted while the list is shorter
Beyond == 2          \* words of memory behind my_argv that the model follows
MaxShort == 3        \* tokens of the lines that mix plain and '&' tokens

Pids == 1..MaxPid

\* enum ProcessType {FORE, BACK}
FORE == "FORE"
BACK == "BACK"
ProcessType == {FORE, BACK}

\* return value of fork() on failure and of wait() when no child exists
Failed == -1
\* an int local that holds no process id yet
NoPid == 0

\* #define ARGS_MAX 10
ARGS_MAX == 10

\* A string is a sequence of characters; the null pointer is none of them.
NULL == <<"NULL">>

VARIABLES
    status,        \* kernel: pid -> "free" | "running" | "zombie" (child of the shell)
    mode,          \* kernel: pid -> ProcessType the live child was launched with
    sigPending,    \* kernel: a SIGCHLD is pending for the shell (one bit, no queue)
    sigchld,       \* kernel: disposition of SIGCHLD
    bgProcIDs,     \* static std::list<int> bgProcIDs
    pt,            \* static ProcessType pt
    cmd,           \* main: the command being dispatched ("" between commands)
    pid,           \* execute: int pid
    pc,            \* position of the main loop
    it,            \* killBgProcs: position of iterator it (Len+1 is end())
    itStale,       \* killBgProcs: value of the node it pointed to when that node was erased
    hpc,           \* position of child_handler ("idle" when it is not running)
    hpid,          \* child_handler: int pid
    killsSent,     \* kill(pid, SIGINT) calls of the current killBgProcs, in order
    kbSnapshot,    \* bgProcIDs as it was when the current killBgProcs was entered
    diag,          \* stdout: the diagnostic the shell printed for the current line ("" if none)
    notFound,      \* kernel: zombies that printed "command not found" and called exit(1)
    input,         \* getArgs: char *input as main passed it
    line,          \* strtok: the characters of input behind the last token returned
    tok,           \* getArgs: char *tok (NULL after the last token)
    argNum,        \* getArgs: int argNum
    my_argv,       \* static char *my_argv[ARGS_MAX] and the words that follow it in memory
    apc            \* position of getArgs

vars == <<status, mode, sigPending, sigchld, bgProcIDs, pt, cmd, pid, pc,
          it, itStale, hpc, hpid, killsSent, kbSnapshot, diag, notFound,
          input, line, tok, argNum, my_argv, apc>>

kernelVars == <<status, mode, sigPending, sigchld>>
loopVars == <<it, itStale, killsSent, kbSnapshot>>
handlerVars == <<hpc, hpid>>
argsVars == <<input, line, tok, argNum, my_argv, apc>>
\* everything but pt and the state of getArgs
controlVars == <<status, mode, sigPending, sigchld, bgProcIDs, cmd, pid, pc,
                 it, itStale, hpc, hpid, killsSent, kbSnapshot, diag, notFound>>

-----------------------------------------------------------------------------
\* Helpers on the kernel's process table.

Zombies == {p \in Pids : status[p] = "zombie"}
Running == {p \in Pids : status[p] = "running"}
FreePids == {p \in Pids : status[p] = "free"}
Children == Zombies \cup Running

\* The shell process is alive and its main loop, not the handler, has the CPU.
Alive == pc \notin {"exited", "crashed"}
MainRuns == Alive /\ hpc = "idle"
\* A system call of the main loop starts only with no SIGCHLD left to deliver.
MainSyscall == MainRuns /\ ~sigPending

-----------------------------------------------------------------------------
\* std::list<int> operations.

\* list::remove(value): erases every element equal to value.
ListRemove(l, v) == SelectSeq(l, LAMBDA x : x # v)

\* list::push_back(value)
PushBack(l, v) == Append(l, v)

\* A clear that erases the first node only.
ListClearFirstOnly(l) == IF l = << >> THEN l ELSE Tail(l)

\* list::clear()
ListClear(l) == << >>

\* Number of elements equal to v in front of position i.
CountBefore(l, v, i) == Cardinality({j \in 1..Len(l) : j < i /\ l[j] = v})

\* Elements of the list as a set.
ListSet(l) == {l[i] : i \in 1..Len(l)}

-----------------------------------------------------------------------------
\* The words of memory the model follows: my_argv[0 .. ARGS_MAX-1] and the
\* Beyond words behind the array, which belong to other objects.
ArgvWords == 0..(ARGS_MAX + Beyond - 1)

InitControl ==
    /\ status = [p \in Pids |-> "free"]
    /\ mode = [p \in Pids |-> FORE]
    /\ sigPending = FALSE
    /\ sigchld = "child_handler"
    /\ bgProcIDs = << >>
    /\ pt = FORE
    /\ cmd = ""
    /\ pid = NoPid
    /\ pc = "start"
    /\ it = 1
    /\ itStale = NoPid
    /\ hpc = "idle"
    /\ hpid = NoPid
    /\ killsSent = << >>
    /\ kbSnapshot = << >>
    /\ diag = ""
    /\ notFound = {}

\* getArgs has not been called; my_argv is a zero-initialised static.
InitArgv ==
    /\ line = << >>
    /\ tok = NULL
    /\ argNum = 0
    /\ my_argv = [i \in ArgvWords |-> NULL]
    /\ apc = "idle"

Init == InitControl /\ InitArgv /\ input = << >>


-----------------------------------------------------------------------------
\* Main loop: reading a line and dispatching it (main, lines 220-262).

\* The call execute(c) is reached with mode m: execute("clear") once at start-up
\* with pt = FORE, afterwards from a line that names no built-in, for which
\* getArgs has set pt to m.
Dispatches(c, m) ==
    \/ pc = "start" /\ c = "clear" /\ m = pt
    \/ pc = "read" /\ c = "ext"

\* execute: fork() returns the new child's pid to the parent.  The child itself
\* (execvp, or printf and exit(1)) runs as a separate process: "running".
ForkChild(c, m) ==
    /\ MainSyscall
    /\ Dispatches(c, m)
    /\ m = BACK => Len(bgProcIDs) < MaxJobs
    /\ \E p \in FreePids :
          /\ status' = [status EXCEPT ![p] = "running"]
          /\ mode' = [mode EXCEPT ![p] = m]
          /\ pid' = p
    /\ pt' = m
    /\ cmd' = c
    /\ pc' = "parent"
    /\ UNCHANGED <<sigPending, sigchld, bgProcIDs, loopVars, handlerVars,
                 diag, notFound, argsVars>>

\* execute: fork() returns a negative value; neither branch is taken.
ForkFails(c, m) ==
    /\ MainSyscall
    /\ Dispatches(c, m)
    /\ pid' = Failed
    /\ pt' = m
    /\ cmd' = c
    /\ pc' = "ret"
    /\ UNCHANGED <<kernelVars, bgProcIDs, loopVars, handlerVars,
                 diag, notFound, argsVars>>

\* A parent that waits whatever the mode.
WaitsForChildAlways(t) == TRUE

\* execute, line 138: the parent waits exactly when pt == FORE.
WaitsForChild(t) == t = FORE

\* execute, line 141: the parent registers the child exactly when pt == BACK.
RegistersChild(t) == t = BACK

\* execute, lines 138-139: the foreground parent calls waitpid(pid, NULL, 0).
WaitpidCall ==
    /\ MainRuns
    /\ pc = "parent"
    /\ WaitsForChild(pt)
    /\ pc' = "waitpid"
    /\ UNCHANGED <<kernelVars, bgProcIDs, pt, cmd, pid, loopVars, handlerVars,
                 diag, notFound, argsVars>>

\* A waitpid that returns at once whatever the child's state (WNOHANG).
WaitpidNoHang(p) == TRUE

\* waitpid(p, NULL, 0) can return: p has terminated (it is reaped) or p is no
\* child any more (ECHILD: child_handler has reaped it).
WaitpidReady(p) == status[p] # "running"

\* execute, line 139: waitpid returns; execute returns to main.
WaitpidReturn ==
    /\ MainRuns
    /\ pc = "waitpid"
    /\ WaitpidReady(pid)
    /\ IF status[pid] = "zombie"
          THEN /\ status' = [status EXCEPT ![pid] = "free"]
               /\ mode' = [mode EXCEPT ![pid] = FORE]
               /\ notFound' = notFound \ {pid}
          ELSE UNCHANGED <<status, mode, notFound>>
    /\ pc' = "ret"
    /\ UNCHANGED <<sigPending, sigchld, bgProcIDs, pt, cmd, pid, loopVars, handlerVars,
                 diag, argsVars>>

\* execute, lines 141-142: the background parent enters bgProcIDs.push_back(pid).
PushBegin ==
    /\ MainRuns
    /\ pc = "parent"
    /\ ~WaitsForChild(pt)
    /\ RegistersChild(pt)
    /\ pc' = "push_back"
    /\ UNCHANGED <<kernelVars, bgProcIDs, pt, cmd, pid, loopVars, handlerVars,
                 diag, notFound, argsVars>>

\* execute, line 142: push_back completes; execute returns to main.  After a
\* handler's remove has run inside the push_back ("push_lost") the new node
\* may be hooked to an erased node and never be reachable from the list head.
PushEnd ==
    /\ MainRuns
    /\ pc \in {"push_back", "push_lost"}
    /\ bgProcIDs' = IF pc = "push_back" THEN PushBack(bgProcIDs, pid) ELSE bgProcIDs
    /\ pc' = "ret"
    /\ UNCHANGED <<kernelVars, pt, cmd, pid, loopVars, handlerVars,
                 diag, notFound, argsVars>>

\* changeDir, lines 165-174: with no path nothing happens; chdir(path) succeeds,
\* or it fails and "cd: <path>: No such file or directory" is printed.
CdDiagnostics == {"", "cd: No such file or directory"}

\* main, lines 244-245: built-in cd.
ReadCd(m) ==
    /\ MainSyscall
    /\ pc = "read"
    /\ pt' = m
    /\ cmd' = "cd"
    /\ diag' \in CdDiagnostics
    /\ pc' = "ret"
    /\ UNCHANGED <<kernelVars, bgProcIDs, pid, loopVars, handlerVars,
                 notFound, argsVars>>

\* main, lines 248-249 and 225, 271-274: built-in exit, or end of input.
ReadExit ==
    /\ MainSyscall
    /\ pc = "read"
    /\ pc' = "exited"
    /\ UNCHANGED <<kernelVars, bgProcIDs, pt, cmd, pid, loopVars, handlerVars,
                 diag, notFound, argsVars>>

\* main, lines 221-225: after execute("clear") the prompt is printed and the
\* loop condition reads the uninitialised char c: the loop is entered, or c
\* happens to equal EOF and main returns.
StartLoop ==
    /\ MainSyscall
    /\ pc = "ret"
    /\ cmd = "clear"
    /\ pc' \in {"read", "exited"}
    /\ cmd' = ""
    /\ pid' = NoPid
    /\ UNCHANGED <<kernelVars, bgProcIDs, pt, loopVars, handlerVars,
                 diag, notFound, argsVars>>

\* main, lines 254-262: resetArgs, prompt, clear cmd and input, read again.
Reprompt ==
    /\ MainSyscall
    /\ pc = "ret"
    /\ cmd # "clear"
    /\ pc' = "read"
    /\ cmd' = ""
    /\ pid' = NoPid
    /\ it' = 1
    /\ itStale' = NoPid
    /\ killsSent' = << >>
    /\ kbSnapshot' = << >>
    /\ diag' = ""
    /\ UNCHANGED <<kernelVars, bgProcIDs, pt, handlerVars,
                 notFound, argsVars>>

-----------------------------------------------------------------------------
\* killBgProcs (lines 179-195).  The iterator is a position in bgProcIDs; when
\* child_handler erases the node the iterator points to, the iterator dangles:
\* itStale keeps the erased node's value and it is the position of the node
\* the erased node's next pointer led to.  Using a dangling iterator is
\* undefined: the freed node may still be readable, or the shell crashes.

Dangling == itStale # NoPid

\* main, lines 246-247, and killBgProcs, line 184: it = bgProcIDs.begin().
ReadKillbg(m) ==
    /\ MainSyscall
    /\ pc = "read"
    /\ pt' = m
    /\ cmd' = "killbg"
    /\ pc' = "kb_test"
    /\ it' = 1
    /\ itStale' = NoPid
    /\ killsSent' = << >>
    /\ kbSnapshot' = bgProcIDs
    /\ UNCHANGED <<kernelVars, bgProcIDs, pid, handlerVars,
                 diag, notFound, argsVars>>

\* line 184: it != bgProcIDs.end().  A dangling iterator is the address of a
\* freed node, which is not the list's end.
ItNotEnd == Dangling \/ it <= Len(bgProcIDs)

\* line 184: the loop condition.
KbTest ==
    /\ MainRuns
    /\ pc = "kb_test"
    /\ pc' = IF ItNotEnd THEN "kb_kill" ELSE "kb_clear"
    /\ UNCHANGED <<kernelVars, bgProcIDs, pt, cmd, pid, loopVars, handlerVars,
                 diag, notFound, argsVars>>

\* lines 185-186: int pid = *it; kill(pid, SIGINT).  Whether and when the
\* signalled process terminates is up to that process (ChildExits).
KbKill ==
    /\ MainSyscall
    /\ pc = "kb_kill"
    /\ \/ /\ killsSent' = Append(killsSent, IF Dangling THEN itStale ELSE bgProcIDs[it])
          /\ pc' = "kb_usleep"
       \/ /\ Dangling
          /\ pc' = "crashed"
          /\ UNCHANGED killsSent
    /\ UNCHANGED <<kernelVars, bgProcIDs, pt, cmd, pid, it, itStale, kbSnapshot, handlerVars,
                 diag, notFound, argsVars>>

\* line 190: usleep(1000) returns (after 1 ms, or early when a handler ran).
KbUsleep ==
    /\ MainSyscall
    /\ pc = "kb_usleep"
    /\ pc' = "kb_inc"
    /\ UNCHANGED <<kernelVars, bgProcIDs, pt, cmd, pid, loopVars, handlerVars,
                 diag, notFound, argsVars>>

\* line 184: ++it.  On a dangling iterator the freed node's next pointer is
\* followed, or the shell crashes.
KbInc ==
    /\ MainRuns
    /\ pc = "kb_inc"
    /\ \/ /\ ~Dangling
          /\ it' = it + 1
          /\ pc' = "kb_test"
          /\ UNCHANGED itStale
       \/ /\ Dangling
          /\ itStale' = NoPid
          /\ pc' = "kb_test"
          /\ UNCHANGED it
       \/ /\ Dangling
          /\ pc' = "crashed"
          /\ UNCHANGED <<it, itStale>>
    /\ UNCHANGED <<kernelVars, bgProcIDs, pt, cmd, pid, killsSent, kbSnapshot, handlerVars,
                 diag, notFound, argsVars>>

\* line 194: bgProcIDs.clear() is entered.
KbClearBegin ==
    /\ MainRuns
    /\ pc = "kb_clear"
    /\ pc' = "clearing"
    /\ UNCHANGED <<kernelVars, bgProcIDs, pt, cmd, pid, loopVars, handlerVars,
                 diag, notFound, argsVars>>

\* line 194: clear() completes; killBgProcs returns to main.
KbClearEnd ==
    /\ MainRuns
    /\ pc = "clearing"
    /\ bgProcIDs' = ListClear(bgProcIDs)
    /\ pc' = "ret"
    /\ UNCHANGED <<kernelVars, pt, cmd, pid, loopVars, handlerVars,
                 diag, notFound, argsVars>>

-----------------------------------------------------------------------------
\* Child processes and the kernel.

\* A child of the shell terminates (by itself, after exit(1) on a failed
\* execvp, or from a signal): it becomes a zombie and SIGCHLD is raised.  A
\* SIGCHLD raised while one is pending or blocked adds nothing: signals do not
\* queue.
ChildExits(p) ==
    /\ Alive
    /\ status[p] = "running"
    /\ status' = [status EXCEPT ![p] = "zombie"]
    /\ sigPending' = (sigPending \/ sigchld = "child_handler")
    /\ UNCHANGED <<mode, sigchld, bgProcIDs, pt, cmd, pid, pc, loopVars, handlerVars,
                 diag, notFound, argsVars>>

\* execute, lines 131-134: in the child execvp returns (no such command); the
\* child prints "<cmd>: command not found" and calls exit(1): it becomes a
\* zombie like any terminated child.
ExecFails(p) ==
    /\ Alive
    /\ status[p] = "running"
    /\ status' = [status EXCEPT ![p] = "zombie"]
    /\ notFound' = notFound \cup {p}
    /\ sigPending' = (sigPending \/ sigchld = "child_handler")
    /\ UNCHANGED <<mode, sigchld, bgProcIDs, pt, cmd, pid, pc, loopVars, handlerVars,
                 diag, argsVars>>

\* The kernel delivers the pending SIGCHLD: child_handler starts on top of the
\* main loop, with SIGCHLD blocked until it returns.
Deliver ==
    /\ MainRuns
    /\ sigPending
    /\ sigchld = "child_handler"
    /\ sigPending' = FALSE
    /\ hpc' = "signal"
    /\ UNCHANGED <<status, mode, sigchld, bgProcIDs, pt, cmd, pid, pc, loopVars, hpid,
                 diag, notFound, argsVars>>

-----------------------------------------------------------------------------
\* child_handler (lines 61-67).

\* A handler that leaves SIGCHLD at its default disposition (ignored).
RearmDefault == "SIG_DFL"

\* The disposition child_handler sets: signal(SIGCHLD, child_handler).
Rearm == "child_handler"

\* line 64: signal(SIGCHLD, child_handler).
HandlerSignal ==
    /\ hpc = "signal"
    /\ sigchld' = Rearm
    /\ hpc' = "wait"
    /\ UNCHANGED <<status, mode, sigPending, bgProcIDs, pt, cmd, pid, pc, loopVars, hpid,
                 diag, notFound, argsVars>>

\* wait(NULL) returns at once with the pid of a terminated child.
WaitReaps(p) == status[p] = "zombie"

\* wait(NULL) returns at once with -1: the shell has no child (ECHILD).
WaitFails == Children = {}

\* wait(NULL) blocks: there are children and none of them has terminated.
WaitBlocks == Zombies = {} /\ Running # {}

\* line 65: int pid = wait(NULL) reaps one terminated child, any of them.
HandlerWait ==
    /\ hpc = "wait"
    /\ \E p \in Pids :
          /\ WaitReaps(p)
          /\ status' = [status EXCEPT ![p] = "free"]
          /\ mode' = [mode EXCEPT ![p] = FORE]
          /\ hpid' = p
          /\ notFound' = notFound \ {p}
    /\ hpc' = "remove"
    /\ UNCHANGED <<sigPending, sigchld, bgProcIDs, pt, cmd, pid, pc, loopVars,
                 diag, argsVars>>

\* line 65: int pid = wait(NULL) finds no child at all.
HandlerWaitNoChild ==
    /\ hpc = "wait"
    /\ WaitFails
    /\ hpid' = Failed
    /\ hpc' = "remove"
    /\ UNCHANGED <<kernelVars, bgProcIDs, pt, cmd, pid, pc, loopVars,
                 diag, notFound, argsVars>>

\* The main loop is inside a mutation of bgProcIDs.
MainMutates == pc \in {"push_back", "push_lost", "clearing"}

\* The iterator of a running killBgProcs after remove(v) has erased nodes.
ItAfterRemove(l, v) == it - CountBefore(l, v, it)
StaleAfterRemove(l, v) ==
    IF ~Dangling /\ it <= Len(l) /\ l[it] = v THEN v ELSE itStale

\* line 66: bgProcIDs.remove(pid); the handler returns and SIGCHLD is unblocked.
HandlerRemove ==
    /\ hpc = "remove"
    /\ ~MainMutates
    /\ bgProcIDs' = ListRemove(bgProcIDs, hpid)
    /\ IF pc \in {"kb_test", "kb_kill", "kb_usleep", "kb_inc"}
          THEN /\ it' = ItAfterRemove(bgProcIDs, hpid)
               /\ itStale' = StaleAfterRemove(bgProcIDs, hpid)
          ELSE UNCHANGED <<it, itStale>>
    /\ hpc' = "idle"
    /\ hpid' = NoPid
    /\ UNCHANGED <<kernelVars, pt, cmd, pid, pc, killsSent, kbSnapshot,
                 diag, notFound, argsVars>>

\* line 66 while the interrupted main loop is inside push_back or clear: the
\* two list operations race.  The remove works on a half-updated list: it
\* takes effect as usual, or (inside push_back) the node being appended is
\* lost, or the shell crashes.
HandlerRemoveRacing ==
    /\ hpc = "remove"
    /\ MainMutates
    /\ \/ /\ bgProcIDs' = ListRemove(bgProcIDs, hpid)
          /\ UNCHANGED pc
       \/ /\ pc = "push_back"
          /\ bgProcIDs' = ListRemove(bgProcIDs, hpid)
          /\ pc' = "push_lost"
       \/ /\ pc' = "crashed"
          /\ UNCHANGED bgProcIDs
    /\ hpc' = "idle"
    /\ hpid' = NoPid
    /\ UNCHANGED <<kernelVars, pt, cmd, pid, loopVars,
                 diag, notFound, argsVars>>

-----------------------------------------------------------------------------
MainStep ==
    \/ \E c \in {"clear", "ext"}, m \in ProcessType : ForkChild(c, m)
    \/ \E c \in {"clear", "ext"}, m \in ProcessType : ForkFails(c, m)
    \/ WaitpidCall
    \/ WaitpidReturn
    \/ PushBegin
    \/ PushEnd
    \/ \E m \in ProcessType : ReadCd(m)
    \/ \E m \in ProcessType : ReadKillbg(m)
    \/ ReadExit
    \/ StartLoop
    \/ Reprompt
    \/ KbTest
    \/ KbKill
    \/ KbUsleep
    \/ KbInc
    \/ KbClearBegin
    \/ KbClearEnd

HandlerStep ==
    \/ Deliver
    \/ HandlerSignal
    \/ HandlerWait
    \/ HandlerWaitNoChild
    \/ HandlerRemove
    \/ HandlerRemoveRacing

Next ==
    \/ MainStep
    \/ HandlerStep
    \/ \E p \in Pids : ChildExits(p)
    \/ \E p \in Pids : ExecFails(p)

Spec == Init /\ [][Next]_vars

\* The steps the shell takes by itself: every main-loop step but the arrival
\* of a line of input, which is up to the user.
MainProgress == pc # "read" /\ MainStep

\* The scheduler runs the shell whenever it can run; children may run forever
\* and the user may stay silent.
FairSpec == Spec /\ WF_vars(MainProgress) /\ WF_vars(HandlerStep)

\* The shell without the killbg built-in: launches, terminations, handler.
LaunchStep ==
    \/ \E c \in {"clear", "ext"}, m \in ProcessType : ForkChild(c, m)
    \/ \E c \in {"clear", "ext"}, m \in ProcessType : ForkFails(c, m)
    \/ WaitpidCall
    \/ WaitpidReturn
    \/ PushBegin
    \/ PushEnd
    \/ StartLoop
    \/ Reprompt

NextLaunch ==
    \/ LaunchStep
    \/ Deliver
    \/ HandlerSignal
    \/ HandlerWait
    \/ HandlerWaitNoChild
    \/ HandlerRemove
    \/ HandlerRemoveRacing
    \/ \E p \in Pids : ChildExits(p)
    \/ \E p \in Pids : ExecFails(p)

SpecLaunch == Init /\ [][NextLaunch]_vars

-----------------------------------------------------------------------------
\* getArgs (lines 73-118).  A C string is the sequence of its characters; the
\* terminating NUL is not part of it.

Space == " "
Amp == "&"

\* The delimiters strtok skips in front of a token.
RECURSIVE SkipDelims(_)
SkipDelims(s) ==
    IF s # << >> /\ Head(s) = Space THEN SkipDelims(Tail(s)) ELSE s

\* Length of the run of non-delimiters s starts with.
RECURSIVE TokenLen(_)
TokenLen(s) ==
    IF s = << >> \/ Head(s) = Space THEN 0 ELSE 1 + TokenLen(Tail(s))

\* strtok(s, " "): the next token of s, NULL when only delimiters are left.
StrtokToken(s) ==
    LET r == SkipDelims(s)
    IN  IF r = << >> THEN NULL ELSE SubSeq(r, 1, TokenLen(r))

\* strtok(s, " "): what is left behind the delimiter that ended the token.
StrtokRest(s) ==
    LET r == SkipDelims(s)
    IN  SubSeq(r, TokenLen(r) + 2, Len(r))

\* Bytes a block returned by malloc may hold in front of its first NUL byte:
\* the block is not initialised (none, or some left-over bytes).
Garbage == {<< >>, <<"?">>}

\* tok[strlen(tok)-1]
LastChar(t) == t[Len(t)]

\* The string found at my_argv[argNum] after strncpy(my_argv[argNum], t, strlen(t))
\* and strncat(my_argv[argNum], "\0", 1): strncpy writes no NUL and strncat
\* appends the empty string, so the string ends at the first NUL the block
\* happens to hold.  A block that is reused was zeroed up to its old length.
CopiedString(old, t, g) ==
    IF old # NULL /\ Len(t) <= Len(old) THEN t ELSE t \o g

\* The lines getArgs is called with.
Words == {<<"l", "s">>, <<"-", "l">>, <<Amp>>, <<"l", "s", Amp>>}

ShortLines == UNION {[1..n -> Words] : n \in 0..MaxShort}

LongLines ==
    {[i \in 1..n |-> <<"x">>] \o last :
        n \in (ARGS_MAX - 2)..(ARGS_MAX + Beyond), last \in {<< >>, << <<Amp>> >>}}

RECURSIVE Join(_, _)
Join(ts, sep) ==
    IF ts = << >> THEN << >>
    ELSE IF Len(ts) = 1 THEN ts[1]
    ELSE ts[1] \o sep \o Join(Tail(ts), sep)

\* A line typed with single spaces, or with spaces around and doubled between
\* the tokens.  main does not call getArgs with an empty line (line 236).
Lines ==
    ({Join(ts, <<Space>>) : ts \in ShortLines \cup LongLines}
       \cup {<<Space>> \o Join(ts, <<Space, Space>>) \o <<Space>> :
                ts \in ShortLines \cup LongLines})
    \ {<< >>}

InitArgs == InitControl /\ InitArgv /\ input \in Lines

\* lines 75-79: int argNum = 0; tok = strtok(input, " ").
GetArgsCall ==
    /\ apc = "idle"
    /\ argNum' = 0
    /\ tok' = StrtokToken(input)
    /\ line' = StrtokRest(input)
    /\ apc' = "loop"
    /\ UNCHANGED <<controlVars, pt, input, my_argv>>

\* line 82: while (tok != NULL || argNum >= ARGS_MAX); line 117: pt = FORE.
LoopTest ==
    /\ apc = "loop"
    /\ IF tok # NULL \/ argNum >= ARGS_MAX
          THEN apc' = "body" /\ UNCHANGED pt
          ELSE apc' = "done" /\ pt' = FORE
    /\ UNCHANGED <<controlVars, input, line, tok, argNum, my_argv>>

\* line 83 with tok == NULL: strlen(NULL) dereferences the null pointer.
DerefNull ==
    /\ apc = "body"
    /\ tok = NULL
    /\ apc' = "crashed"
    /\ UNCHANGED <<controlVars, pt, input, line, tok, argNum, my_argv>>

\* lines 83-96: the token does not end in '&': it is copied to my_argv[argNum],
\* argNum is incremented and the next token is fetched.  With
\* argNum >= ARGS_MAX the word written lies behind the array: the write lands
\* there, or the shell crashes.
StoreToken ==
    /\ apc = "body"
    /\ tok # NULL
    /\ LastChar(tok) # Amp
    /\ argNum \in ArgvWords
    /\ \/ /\ \E g \in Garbage :
                my_argv' = [my_argv EXCEPT ![argNum] = CopiedString(my_argv[argNum], tok, g)]
          /\ argNum' = argNum + 1
          /\ tok' = StrtokToken(line)
          /\ line' = StrtokRest(line)
          /\ apc' = "loop"
       \/ /\ argNum >= ARGS_MAX
          /\ apc' = "crashed"
          /\ UNCHANGED <<line, tok, argNum, my_argv>>
    /\ UNCHANGED <<controlVars, pt, input>>

\* lines 98-114: the token ends in '&': what precedes the '&', if anything, is
\* copied to my_argv[argNum], pt = BACK, and getArgs returns.
FoundAmp ==
    /\ apc = "body"
    /\ tok # NULL
    /\ LastChar(tok) = Amp
    /\ IF Len(tok) > 1
          THEN /\ argNum \in ArgvWords
               /\ \E g \in Garbage :
                     my_argv' = [my_argv EXCEPT ![argNum] =
                                    CopiedString(my_argv[argNum], SubSeq(tok, 1, Len(tok) - 1), g)]
          ELSE UNCHANGED my_argv
    /\ pt' = BACK
    /\ apc' = "done"
    /\ UNCHANGED <<controlVars, input, line, tok, argNum>>

NextArgs ==
    \/ GetArgsCall
    \/ LoopTest
    \/ DerefNull
    \/ StoreToken
    \/ FoundAmp

SpecArgs == InitArgs /\ [][NextArgs]_vars

-----------------------------------------------------------------------------
\* Properties.

\* Background children the kernel still holds (running or zombie).
UnreapedBackground == {p \in Pids : status[p] # "free" /\ mode[p] = BACK}

\* The main loop is between commands or past the call that handled the line.
LaunchReturned == pc \in {"ret", "read"}

\* The main loop is inside execute(c) or has just returned from it.
InExecute == cmd \in {"clear", "ext"}

\* C1: without killbg, whenever no launch and no handler invocation is under
\* way, bgProcIDs holds exactly the pids of the background children that have
\* not been reaped.
C1_JobListExact ==
    (LaunchReturned /\ hpc = "idle") => ListSet(bgProcIDs) = UnreapedBackground

\* C2: child_handler never executes bgProcIDs.remove(p) for the child p of a
\* background launch that has forked p and not yet completed push_back(p).
C2_RegisteredBeforeRemoved ==
    ~(/\ InExecute /\ pt = BACK
      /\ pc \in {"parent", "push_back"}
      /\ hpc = "remove"
      /\ hpid = pid)

\* Background children that have terminated and are not reaped.
BgZombies == {p \in Pids : status[p] = "zombie" /\ mode[p] = BACK}

\* C3: when k >= 2 background children have terminated and their SIGCHLDs
\* have coalesced into the one being handled (none is pending any more), the
\* handler's reaping leaves none of them unreaped.
C3_CoalescedAllReaped ==
    [][(/\ hpc = "wait" /\ hpc' = "remove"
        /\ ~sigPending
        /\ Cardinality(BgZombies) >= 2)
          => BgZombies' = {}]_vars

\* C4: every child that terminates is eventually reaped while the shell runs.
C4_ZombieEventuallyReaped ==
    \A p \in Pids : (status[p] = "zombie") ~> (status[p] # "zombie" \/ ~Alive)

\* C5: when killBgProcs has returned, bgProcIDs is empty.
C5_EmptyAfterKillbg ==
    (pc = "ret" /\ cmd = "killbg") => bgProcIDs = << >>

\* C5 witness: killBgProcs has returned from a non-empty list while a child
\* it signalled is still running.
C5_Witness ==
    /\ pc = "ret" /\ cmd = "killbg"
    /\ kbSnapshot # << >>
    /\ \E p \in ListSet(kbSnapshot) : status[p] = "running"

\* C6: when killBgProcs has returned, it has sent one SIGINT to each pid the
\* list held at its entry, in order, and none else.
C6_KillsEqualSnapshot ==
    (pc = "ret" /\ cmd = "killbg") => killsSent = kbSnapshot

\* C7: when a foreground execute has returned, its child is not running.
C7_ForegroundReturnsAfterExit ==
    (pc = "ret" /\ InExecute /\ pt = FORE /\ pid \in Pids) => status[pid] # "running"

\* C7 witness: a foreground execute has returned while a background child is
\* still running.
C7_Witness ==
    /\ pc = "ret" /\ cmd = "ext" /\ pt = FORE /\ pid \in Pids
    /\ \E p \in Pids : status[p] = "running" /\ mode[p] = BACK

\* C8: once the child of a foreground execute has terminated, the shell is
\* not blocked waiting for another child before it reaches the prompt.
C8_ForegroundBlocksOnOwnChildOnly ==
    ~(/\ InExecute /\ pt = FORE /\ pid \in Pids
      /\ status[pid] # "running"
      /\ hpc = "wait" /\ WaitBlocks)

C10_HandlerWaitNeverBlocks ==
    ~(hpc = "wait" /\ WaitBlocks)

\* C11: when fork fails in execute, a diagnostic is printed, bgProcIDs is
\* unchanged and execute returns without waiting.
C11_ForkFailureReported ==
    [][(pid # Failed /\ pid' = Failed)
          => (diag' # "" /\ bgProcIDs' = bgProcIDs /\ pc' = "ret")]_vars

\* C12: a child whose execvp fails prints the diagnostic and terminates at
\* once, leaving the parent's position and job list alone; when such a child
\* of a background launch is reaped, its pid is on bgProcIDs (registered), so
\* that the handler's remove takes it off.
C12_ExecFailureContained ==
    [][/\ \A p \in Pids :
            (p \notin notFound /\ p \in notFound')
                => (status'[p] = "zombie" /\ pc' = pc /\ bgProcIDs' = bgProcIDs)
       /\ \A p \in Pids :
            (p \in notFound /\ mode[p] = BACK /\ status'[p] = "free")
                => p \in ListSet(bgProcIDs)]_vars

\* C13: the remove of a handler invocation leaves the main loop where it was
\* (no error), erases the reaped pid and nothing else, and changes nothing
\* when the reaped pid (or -1) is not on bgProcIDs.
C13_RemoveFrame ==
    [][(hpc = "remove" /\ hpc' = "idle")
          => /\ pc' = pc
             /\ bgProcIDs' = SelectSeq(bgProcIDs, LAMBDA x : x # hpid)
             /\ hpid \notin ListSet(bgProcIDs) => bgProcIDs' = bgProcIDs]_vars

\* The main loop is handling a line of input that is not the exit built-in.
HandlingLine == cmd \in {"ext", "cd", "killbg"} /\ pc # "read"

\* Every foreground child terminates at some time.
ForegroundTerminates ==
    \A p \in Pids : []<>(~(status[p] = "running" /\ mode[p] = FORE))

\* C14: if foreground children terminate, then after every line other than exit
\* the shell eventually prints the prompt and reads again.
C14_AlwaysReprompts ==
    ForegroundTerminates => (HandlingLine ~> (pc = "read"))

\* C16: killBgProcs never is about to dereference (line 185) or advance
\* (line 184) an iterator whose node child_handler has erased.
C16_IteratorNeverDangles ==
    ~(pc \in {"kb_kill", "kb_inc"} /\ Dangling)

\* C17: child_handler never is at its remove while the main loop is inside
\* push_back or clear.
C17_MutationsExclusive ==
    ~(hpc = "remove" /\ MainMutates)

\* C19: no pid occurs more than once in bgProcIDs.
C19_NoDuplicatePid ==
    \A i, j \in 1..Len(bgProcIDs) : i # j => bgProcIDs[i] # bgProcIDs[j]

\* C18: whenever a child terminates the disposition of SIGCHLD is
\* child_handler and the signal is recorded for the shell; child_handler reaps
\* only after it has re-armed itself; and a recorded SIGCHLD leads to another
\* invocation of child_handler as long as the shell lives.
C18_RearmedBeforeReap ==
    /\ [][/\ (\E p \in Pids : status[p] = "running" /\ status'[p] = "zombie")
                => (sigchld = "child_handler" /\ sigPending')
          /\ (hpc = "wait" /\ hpc' = "remove") => sigchld = "child_handler"]_vars
    /\ (sigPending ~> (hpc = "signal" \/ ~Alive))

\* A child has terminated while child_handler was running, behind its re-arm,
\* and the SIGCHLD is recorded.
C18_Witness ==
    hpc \in {"wait", "remove"} /\ sigPending /\ sigchld = "child_handler"

\* The tokens of a line: its maximal runs of characters other than the space.
RECURSIVE Tokens(_)
Tokens(s) ==
    LET r == SkipDelims(s)
    IN  IF r = << >> THEN << >>
        ELSE <<SubSeq(r, 1, TokenLen(r))>> \o Tokens(SubSeq(r, TokenLen(r) + 1, Len(r)))

\* The token is, or ends in, the background marker.
EndsInAmp(t) == t[Len(t)] = Amp

\* The arguments of a line: its tokens in order, a trailing '&' of a token
\* taken off, a token that was the '&' alone left out.
Arguments(s) ==
    LET ts == Tokens(s)
        stripped == [i \in 1..Len(ts) |->
                        IF EndsInAmp(ts[i]) THEN SubSeq(ts[i], 1, Len(ts[i]) - 1) ELSE ts[i]]
    IN  SelectSeq(stripped, LAMBDA t : t # << >>)

\* The mode of a line: BACK exactly when some token is or ends in '&'.
ModeOf(s) ==
    IF \E i \in 1..Len(Tokens(s)) : EndsInAmp(Tokens(s)[i]) THEN BACK ELSE FORE

\* C15: for a line of at most ARGS_MAX - 1 tokens getArgs returns with pt the
\* mode of the line and my_argv holding the line's arguments in order, '&'
\* stripped, followed by NULL.
C15_GetArgsResult ==
    Len(Tokens(input)) <= ARGS_MAX - 1
        => /\ apc # "crashed"
           /\ apc = "done"
                => /\ pt = ModeOf(input)
                   /\ \A i \in 0..(ARGS_MAX - 1) :
                         my_argv[i] = IF i < Len(Arguments(input))
                                         THEN Arguments(input)[i + 1]
                                         ELSE NULL

\* C20: getArgs writes no word behind my_argv[ARGS_MAX - 1], and when it
\* returns some my_argv[i] with i < ARGS_MAX is NULL.
C20_ArgvBounded ==
    /\ \A i \in ArgvWords : i >= ARGS_MAX => my_argv[i] = NULL
    /\ apc = "done" => \E i \in 0..(ARGS_MAX - 1) : my_argv[i] = NULL

=============================================================================
